---- MODULE Spec2Model ----
(***************************************************************************)
(* Model of fewerpngbits (src/src/main.rs): the channel bit masker         *)
(* SignificantBits::run and the file handling of main.                     *)
(***************************************************************************)
EXTENDS Integers, Sequences, FiniteSets, TLC

VARIABLES
    pc,             \* position in main, or "harness" when only the masker runs
    args,           \* Args: input, output, force, bits
    fs,             \* file system: path -> content (sequence of bytes) or NoFile
    fs0,            \* file system before the run
    fsOpen,         \* file system right after the output handle was opened
    output,         \* Output: Inplace / NewFile, with the handle's path and position
    opened,         \* paths on which open() was called
    steps,          \* pipeline stages that have completed successfully
    image,          \* the pixel buffer
    image0,         \* the pixel buffer before the first call of run
    target_colors,  \* TargetColors of the buffer
    applied,        \* the SignificantBits values run was called with, in order
    optimized,      \* result of optimize_from_memory
    err,            \* the Error main returned (kind "None" while there is none)
    status          \* process exit status (-1 while running)

vars == <<pc, args, fs, fs0, fsOpen, output, opened, steps, image, image0,
          target_colors, applied, optimized, err, status>>

-----------------------------------------------------------------------------
(* Bounds *)

MaxLen == 5          \* longest pixel buffer drawn from SampleBytes
MaxFileLen == 2      \* longest file content / optimizer output

Byte == 0..255
SampleBytes == {0, 166, 255}

-----------------------------------------------------------------------------
(* u8 operators of Rust: &, |, !, >> *)

RECURSIVE BitAnd(_, _)
BitAnd(a, b) ==
    IF a = 0 \/ b = 0 THEN 0
    ELSE (a % 2) * (b % 2) + 2 * BitAnd(a \div 2, b \div 2)

RECURSIVE BitOr(_, _)
BitOr(a, b) ==
    IF a = 0 THEN b
    ELSE IF b = 0 THEN a
    ELSE (IF a % 2 = 1 \/ b % 2 = 1 THEN 1 ELSE 0) + 2 * BitOr(a \div 2, b \div 2)

BitNot(a) == 255 - a

Shr(a, n) == a \div (2 ^ n)

-----------------------------------------------------------------------------
(* enum SignificantBits, enum TargetColors *)

SignificantBits ==
    {"Bits1", "Bits2", "Bits3", "Bits4", "Bits5", "Bits6", "Bits7", "Bits8"}

\* impl FromStr for SignificantBits (on input without surrounding whitespace)
from_str(s) ==
    CASE s = "1" -> [ok |-> TRUE, val |-> "Bits1"]
      [] s = "2" -> [ok |-> TRUE, val |-> "Bits2"]
      [] s = "3" -> [ok |-> TRUE, val |-> "Bits3"]
      [] s = "4" -> [ok |-> TRUE, val |-> "Bits4"]
      [] s = "5" -> [ok |-> TRUE, val |-> "Bits5"]
      [] s = "6" -> [ok |-> TRUE, val |-> "Bits6"]
      [] s = "7" -> [ok |-> TRUE, val |-> "Bits7"]
      [] s = "8" -> [ok |-> TRUE, val |-> "Bits8"]
      [] OTHER -> [ok |-> FALSE, val |-> "expected value between 1 and 8"]

TargetColors == {"L8", "La8", "Rgb8", "Rgba8"}

\* ColorType values of the image crate that TargetColors::try_from rejects
OtherColorTypes == {"L16", "Rgb16"}

\* impl TryFrom<ColorType> for TargetColors: Ok(layout) or Err(value)
try_from(value) ==
    CASE value = "L8" -> [ok |-> TRUE, val |-> "L8"]
      [] value = "La8" -> [ok |-> TRUE, val |-> "La8"]
      [] value = "Rgb8" -> [ok |-> TRUE, val |-> "Rgb8"]
      [] value = "Rgba8" -> [ok |-> TRUE, val |-> "Rgba8"]
      [] OTHER -> [ok |-> FALSE, val |-> value]

\* bytes per pixel of ExtendedColorType::{L8, La8, Rgb8, Rgba8}
bytes_per_pixel(tc) ==
    CASE tc = "L8" -> 1
      [] tc = "La8" -> 2
      [] tc = "Rgb8" -> 3
      [] tc = "Rgba8" -> 4

-----------------------------------------------------------------------------
(* SignificantBits::run *)

\* the MASK const generic argument of the dispatch table
MASK_wrongBits5(self) ==
    CASE self = "Bits1" -> 128
      [] self = "Bits2" -> 192
      [] self = "Bits3" -> 224
      [] self = "Bits4" -> 240
      [] self = "Bits5" -> 240
      [] self = "Bits6" -> 252
      [] self = "Bits7" -> 254

MASK(self) ==
    CASE self = "Bits1" -> 128      \* 0b1000_0000
      [] self = "Bits2" -> 192      \* 0b1100_0000
      [] self = "Bits3" -> 224      \* 0b1110_0000
      [] self = "Bits4" -> 240      \* 0b1111_0000
      [] self = "Bits5" -> 248      \* 0b1111_1000
      [] self = "Bits6" -> 252      \* 0b1111_1100
      [] self = "Bits7" -> 254      \* 0b1111_1110

\* mutants of mask_bits: the bias added to the unmasked byte; the bias not halved
mask_bits_addNoMask(M, byte) == (byte + Shr(BitNot(M), 1)) % 256

mask_bits_noShift(M, byte) == BitOr(BitAnd(byte, M), BitNot(M))

\* *byte = (*byte & MASK) | const { (!MASK) >> 1 }
mask_bits(M, byte) == BitOr(BitAnd(byte, M), Shr(BitNot(M), 1))

\* length of the part of the slice that as_chunks_mut::<N> returns as chunks
as_chunks_len(bytes, N) == N * (Len(bytes) \div N)

no_alpha(M, bytes) == [i \in 1..Len(bytes) |-> mask_bits(M, bytes[i])]

rgba_maskAlpha(M, bytes) ==
    [i \in 1..Len(bytes) |->
        IF i <= as_chunks_len(bytes, 4) THEN mask_bits(M, bytes[i]) ELSE bytes[i]]

rgba(M, bytes) ==
    [i \in 1..Len(bytes) |->
        IF i <= as_chunks_len(bytes, 4) /\ (i - 1) % 4 \in {0, 1, 2}
        THEN mask_bits(M, bytes[i])
        ELSE bytes[i]]

la8(M, bytes) ==
    [i \in 1..Len(bytes) |->
        IF i <= as_chunks_len(bytes, 2) /\ (i - 1) % 2 = 0
        THEN mask_bits(M, bytes[i])
        ELSE bytes[i]]

run(self, bytes, tc) ==
    IF self = "Bits8" THEN bytes
    ELSE CASE tc \in {"L8", "Rgb8"} -> no_alpha(MASK(self), bytes)
           [] tc = "La8" -> la8(MASK(self), bytes)
           [] tc = "Rgba8" -> rgba(MASK(self), bytes)

-----------------------------------------------------------------------------
(* The masker on its own: any buffer, any layout, run called up to twice *)

None == "None"
NoFile == <<-1>>
NoErr == [kind |-> "None", format |-> None, path |-> None]
NoOutput == [tag |-> "None", path |-> None, pos |-> 0]

BufferInputs ==
    UNION {[1..n -> SampleBytes] : n \in 0..MaxLen} \cup {<<b>> : b \in Byte}

InitMask ==
    /\ pc = "harness"
    /\ args = [input |-> None, output |-> None, force |-> FALSE, bits |-> "Bits8"]
    /\ fs = [p \in {"in", "out"} |-> NoFile]
    /\ fs0 = fs
    /\ fsOpen = fs
    /\ output = NoOutput
    /\ opened = {}
    /\ steps = {}
    /\ image \in BufferInputs
    /\ image0 = image
    /\ target_colors \in TargetColors
    /\ applied = <<>>
    /\ optimized = <<>>
    /\ err = NoErr
    /\ status = -1

MaskRun(self) ==
    /\ pc = "harness"
    /\ Len(applied) < 2
    /\ image' = run(self, image, target_colors)
    /\ applied' = Append(applied, self)
    /\ UNCHANGED <<pc, args, fs, fs0, fsOpen, output, opened, steps, image0,
                   target_colors, optimized, err, status>>

NextMask == \E self \in SignificantBits : MaskRun(self)

SpecMask == InitMask /\ [][NextMask]_vars

-----------------------------------------------------------------------------
(* main: files *)

Paths == {"in", "out"}
FileBytes == {0, 1}
FileContents == UNION {[1..n -> FileBytes] : n \in 0..MaxFileLen}

Max(a, b) == IF a >= b THEN a ELSE b

\* File::write_all at the handle's position: overwrites, extends if needed
write_at(content, pos, data) ==
    [i \in 1..Max(Len(content), pos + Len(data)) |->
        IF i > pos /\ i <= pos + Len(data) THEN data[i - pos]
        ELSE IF i <= Len(content) THEN content[i]
        ELSE 0]

\* File::set_len: cut or zero-extend to n bytes
set_len_noop(content, n) == content

set_len(content, n) ==
    [i \in 1..n |-> IF i <= Len(content) THEN content[i] ELSE 0]

\* the content of `path` after a successful
\* OpenOptions::new().write(true).create(true).truncate(false).open(path)
open_create(content) == IF content = NoFile THEN <<>> ELSE content

\* args.output.is_none() && !args.force
usage_error_forceSet(a) == a.output = None /\ a.force

usage_error(a) == a.output = None /\ ~a.force

Fail(kind, format, path) ==
    /\ err' = [kind |-> kind, format |-> format, path |-> path]
    /\ status' = 1
    /\ pc' = "exit"

\* the decoded pixel buffers: one pixel of the layout, colour bytes c, alpha a
DecodedImages(tc) ==
    {[i \in 1..bytes_per_pixel(tc) |->
        IF tc \in {"La8", "Rgba8"} /\ i = bytes_per_pixel(tc) THEN a ELSE c] :
        c \in SampleBytes, a \in SampleBytes}

Init ==
    /\ pc = "start"
    /\ args \in [input : {"in"}, output : {None, "in", "out"},
                 force : BOOLEAN, bits : SignificantBits]
    /\ fs \in [Paths -> FileContents \cup {NoFile}]
    /\ fs0 = fs
    /\ fsOpen = fs
    /\ output = NoOutput
    /\ opened = {}
    /\ steps = {}
    /\ image = <<>>
    /\ image0 = <<>>
    /\ target_colors = None
    /\ applied = <<>>
    /\ optimized = <<>>
    /\ err = NoErr
    /\ status = -1

UsageCheck ==
    /\ pc = "start"
    /\ IF usage_error(args)
       THEN Fail("Usage", None, None)
       ELSE pc' = "open_input" /\ UNCHANGED <<err, status>>
    /\ UNCHANGED <<args, fs, fs0, fsOpen, output, opened, steps, image, image0,
                   target_colors, applied, optimized>>

OpenInput ==
    /\ pc = "open_input"
    /\ opened' = opened \cup {args.input}
    /\ \/ /\ fs[args.input] # NoFile
          /\ pc' = "map"
          /\ UNCHANGED <<err, status>>
       \/ Fail("OpenRead", None, args.input)
    /\ UNCHANGED <<args, fs, fs0, fsOpen, output, steps, image, image0,
                   target_colors, applied, optimized>>

MapInput ==
    /\ pc = "map"
    /\ \/ pc' = "open_output" /\ UNCHANGED <<err, status>>
       \/ Fail("Map", None, args.input)
    /\ UNCHANGED <<args, fs, fs0, fsOpen, output, opened, steps, image, image0,
                   target_colors, applied, optimized>>

OpenOutput ==
    /\ pc = "open_output"
    /\ IF args.output # None
       THEN /\ opened' = opened \cup {args.output}
            /\ \/ /\ args.force \/ fs[args.output] = NoFile
                  /\ fs' = [fs EXCEPT ![args.output] = open_create(@)]
                  /\ output' = [tag |-> "NewFile", path |-> args.output, pos |-> 0]
                  /\ fsOpen' = fs'
                  /\ pc' = "header"
                  /\ UNCHANGED <<err, status>>
               \/ /\ Fail("OpenWrite", None, args.output)
                  /\ UNCHANGED <<fs, fsOpen, output>>
       ELSE /\ output' = [tag |-> "Inplace", path |-> args.input, pos |-> 0]
            /\ fsOpen' = fs
            /\ pc' = "header"
            /\ UNCHANGED <<fs, opened, err, status>>
    /\ UNCHANGED <<args, fs0, steps, image, image0, target_colors, applied,
                   optimized>>

DecodeHeader ==
    /\ pc = "header"
    /\ \/ /\ pc' = "color_type"
          /\ steps' = steps \cup {"header"}
          /\ UNCHANGED <<err, status>>
       \/ Fail("Header", None, args.input) /\ UNCHANGED steps
    /\ UNCHANGED <<args, fs, fs0, fsOpen, output, opened, image, image0,
                   target_colors, applied, optimized>>

ResolveColorType ==
    /\ pc = "color_type"
    /\ \E color_type \in TargetColors \cup OtherColorTypes :
         LET r == try_from(color_type) IN
         IF r.ok
         THEN /\ target_colors' = r.val
              /\ steps' = steps \cup {"color_type"}
              /\ pc' = "read"
              /\ UNCHANGED <<err, status>>
         ELSE /\ Fail("ColorType", r.val, args.input)
              /\ UNCHANGED <<target_colors, steps>>
    /\ UNCHANGED <<args, fs, fs0, fsOpen, output, opened, image, image0,
                   applied, optimized>>

ReadImage ==
    /\ pc = "read"
    /\ \/ /\ image' \in DecodedImages(target_colors)
          /\ steps' = steps \cup {"read"}
          /\ pc' = "mask"
          /\ UNCHANGED <<err, status>>
       \/ Fail("Read", None, args.input) /\ UNCHANGED <<image, steps>>
    /\ UNCHANGED <<args, fs, fs0, fsOpen, output, opened, image0,
                   target_colors, applied, optimized>>

Mask ==
    /\ pc = "mask"
    /\ image' = run(args.bits, image, target_colors)
    /\ steps' = steps \cup {"mask"}
    /\ pc' = "encode"
    /\ UNCHANGED <<args, fs, fs0, fsOpen, output, opened, image0,
                   target_colors, applied, optimized, err, status>>

\* mutant: the encoder is handed the output file instead of a Vec
Encode_intoOutput ==
    /\ pc = "encode"
    /\ image' = <<>>
    /\ fs' = [fs EXCEPT ![output.path] = write_at(@, output.pos, <<1>>)]
    /\ \/ /\ steps' = steps \cup {"encode"}
          /\ pc' = "optimize"
          /\ UNCHANGED <<err, status>>
       \/ Fail("Encode", None, None) /\ UNCHANGED steps
    /\ UNCHANGED <<args, fs0, fsOpen, output, opened, image0,
                   target_colors, applied, optimized>>

Encode ==
    /\ pc = "encode"
    /\ image' = <<>>
    /\ \/ /\ steps' = steps \cup {"encode"}
          /\ pc' = "optimize"
          /\ UNCHANGED <<err, status>>
       \/ Fail("Encode", None, None) /\ UNCHANGED steps
    /\ UNCHANGED <<args, fs, fs0, fsOpen, output, opened, image0,
                   target_colors, applied, optimized>>

Optimize ==
    /\ pc = "optimize"
    /\ \/ /\ optimized' \in FileContents \ {<<>>}
          /\ steps' = steps \cup {"optimize"}
          /\ pc' = "seek"
          /\ UNCHANGED <<err, status>>
       \/ Fail("Optimize", None, None) /\ UNCHANGED <<optimized, steps>>
    /\ UNCHANGED <<args, fs, fs0, fsOpen, output, opened, image, image0,
                   target_colors, applied>>

SeekStart ==
    /\ pc = "seek"
    /\ IF output.tag = "Inplace"
       THEN \/ /\ output' = [output EXCEPT !.pos = 0]
               /\ pc' = "write"
               /\ UNCHANGED <<err, status>>
            \/ Fail("Seek", None, args.input) /\ UNCHANGED output
       ELSE pc' = "write" /\ UNCHANGED <<output, err, status>>
    /\ UNCHANGED <<args, fs, fs0, fsOpen, opened, steps, image, image0,
                   target_colors, applied, optimized>>

WriteAll ==
    /\ pc = "write"
    /\ \/ /\ fs' = [fs EXCEPT ![output.path] = write_at(@, output.pos, optimized)]
          /\ output' = [output EXCEPT !.pos = @ + Len(optimized)]
          /\ pc' = "set_len"
          /\ UNCHANGED <<err, status>>
       \/ \E k \in 0..(Len(optimized) - 1) :
            /\ fs' = [fs EXCEPT ![output.path] =
                          write_at(@, output.pos, SubSeq(optimized, 1, k))]
            /\ output' = [output EXCEPT !.pos = @ + k]
            /\ Fail("Write", None, output.path)
    /\ UNCHANGED <<args, fs0, fsOpen, opened, steps, image, image0,
                   target_colors, applied, optimized>>

SetLen ==
    /\ pc = "set_len"
    /\ IF output.tag = "Inplace"
       THEN \/ /\ fs' = [fs EXCEPT ![output.path] = set_len(@, Len(optimized))]
               /\ pc' = "exit"
               /\ status' = 0
               /\ UNCHANGED err
            \/ Fail("Truncate", None, args.input) /\ UNCHANGED fs
       ELSE pc' = "exit" /\ status' = 0 /\ UNCHANGED <<fs, err>>
    /\ UNCHANGED <<args, fs0, fsOpen, output, opened, steps, image, image0,
                   target_colors, applied, optimized>>

Next ==
    \/ UsageCheck
    \/ OpenInput
    \/ MapInput
    \/ OpenOutput
    \/ DecodeHeader
    \/ ResolveColorType
    \/ ReadImage
    \/ Mask
    \/ Encode
    \/ Optimize
    \/ SeekStart
    \/ WriteAll
    \/ SetLen

Spec == Init /\ [][Next]_vars

-----------------------------------------------------------------------------
(* Properties of the masker, checked under SpecMask *)

\* the number n of --bits n that parses to `self`
BitsCount(self) == CHOOSE n \in 1..8 : from_str(ToString(n)).val = self

\* the reference masker, by arithmetic: keep the top n bits, put half of the
\* discarded range below them
RefMask(n) == 256 - 2 ^ (8 - n)
RefBias(n) == (255 - RefMask(n)) \div 2
RefByte(b, n) == (b - (b % (2 ^ (8 - n)))) + RefBias(n)

ColourOffsets(tc) == IF tc \in {"Rgb8", "Rgba8"} THEN {0, 1, 2} ELSE {0}

\* the buffer the reference masker gives when the buffer is cut into pixels of
\* `stride` bytes of which the offsets in `colour` are colour bytes
RefBuffer(bytes, n, stride, colour) ==
    [i \in 1..Len(bytes) |->
        IF i <= stride * (Len(bytes) \div stride) /\ ((i - 1) % stride) \in colour
        THEN RefByte(bytes[i], n)
        ELSE bytes[i]]

Abs(x) == IF x < 0 THEN -x ELSE x

\* C1 as stated: after one call of run, every colour byte of every complete
\* pixel (pixels of 1, 2, 3, 4 bytes for Luma, LumaAlpha, Rgb, Rgba) is
\* (byte & mask) | bias, the bytes of a trailing partial pixel and the alpha
\* bytes are as before, and bits = 8 leaves the buffer as it was.
C1_AsStated ==
    Len(applied) = 1 =>
        /\ image = RefBuffer(image0, BitsCount(applied[1]),
                             bytes_per_pixel(target_colors),
                             ColourOffsets(target_colors))
        /\ (applied[1] = "Bits8" => image = image0)

\* C1 amended: after one call of run the buffer equals the reference masker's,
\* where Luma and Rgb mask every byte of the buffer (also the bytes of an
\* incomplete last Rgb pixel), LumaAlpha masks offset 0 of each complete 2-byte
\* pixel and Rgba offsets 0,1,2 of each complete 4-byte pixel; a trailing
\* partial pixel is left as it was for LumaAlpha and Rgba only; bits = 8
\* leaves the buffer as it was.
C1_RunEqualsReference ==
    Len(applied) = 1 =>
        /\ image = RefBuffer(image0, BitsCount(applied[1]),
                             CASE target_colors \in {"L8", "Rgb8"} -> 1
                               [] target_colors = "La8" -> 2
                               [] target_colors = "Rgba8" -> 4,
                             IF target_colors = "Rgba8" THEN {0, 1, 2} ELSE {0})
        /\ (applied[1] = "Bits8" => image = image0)

C1_Witness ==
    /\ applied = <<"Bits5">>
    /\ target_colors = "Rgba8"
    /\ image0 = <<255, 166, 0, 255, 166>>
    /\ image = <<251, 163, 3, 255, 166>>

\* C2: whatever run was called with, every alpha byte (offset 3 mod 4 of an
\* Rgba buffer, offset 1 mod 2 of a LumaAlpha buffer) is as before the call.
C2_AlphaPreserved ==
    /\ Len(image) = Len(image0)
    /\ target_colors = "Rgba8" =>
         \A i \in 1..Len(image) : (i - 1) % 4 = 3 => image[i] = image0[i]
    /\ target_colors = "La8" =>
         \A i \in 1..Len(image) : (i - 1) % 2 = 1 => image[i] = image0[i]

C2_Witness ==
    /\ Len(applied) >= 1
    /\ target_colors = "Rgba8"
    /\ Len(image0) = 4
    /\ image0[4] = 0
    /\ \A i \in 1..3 : image[i] # image0[i]

\* C8: run with bits = k and then with bits = j < k gives the buffer that one
\* run with bits = j gives on the original buffer.
C8_Monotone ==
    (Len(applied) = 2 /\ BitsCount(applied[2]) < BitsCount(applied[1])) =>
        image = run(applied[2], image0, target_colors)

C8_Witness ==
    /\ applied = <<"Bits6", "Bits3">>
    /\ target_colors = "La8"
    /\ Len(image0) = 5
    /\ run("Bits6", image0, target_colors) # image
    /\ image # image0

\* C9: run twice with the same bits gives the buffer that one run gives.
C9_Idempotent ==
    (Len(applied) = 2 /\ applied[1] = applied[2]) =>
        image = run(applied[1], image0, target_colors)

C9_Witness ==
    /\ applied = <<"Bits4", "Bits4">>
    /\ target_colors = "Rgb8"
    /\ Len(image0) = 4
    /\ image # image0

\* every masked byte keeps its top n bits and moves by at most 2^(7-n)
C10_Bounded(n) ==
    /\ target_colors = "L8" =>
         \A i \in 1..Len(image) :
            /\ image[i] \div (2 ^ (8 - n)) = image0[i] \div (2 ^ (8 - n))
            /\ Abs(image[i] - image0[i]) <= 2 ^ (7 - n)
    /\ \A b \in Byte :
         LET r == run(applied[1], <<b>>, "L8")[1] IN
            /\ r \div (2 ^ (8 - n)) = b \div (2 ^ (8 - n))
            /\ Abs(r - b) <= 2 ^ (7 - n)

\* C10 as stated: for every bits in 1..7 some byte is masked to a greater
\* value, and every byte keeps its top bits and moves by at most 2^(7-bits).
C10_AsStated ==
    (Len(applied) = 1 /\ applied[1] # "Bits8") =>
        /\ \E b \in Byte : run(applied[1], <<b>>, "L8")[1] > b
        /\ C10_Bounded(BitsCount(applied[1]))

\* C10 amended: for every bits in 1..6 some byte is masked to a greater value;
\* for bits = 7 the bias is 0 and no byte is (the masker truncates); for every
\* bits in 1..7 every byte keeps its top bits and moves by at most 2^(7-bits).
C10_Centred ==
    (Len(applied) = 1 /\ applied[1] # "Bits8") =>
        /\ IF applied[1] = "Bits7"
           THEN \A b \in Byte : run(applied[1], <<b>>, "L8")[1] <= b
           ELSE \E b \in Byte : run(applied[1], <<b>>, "L8")[1] > b
        /\ C10_Bounded(BitsCount(applied[1]))

C10_Witness ==
    /\ applied = <<"Bits2">>
    /\ target_colors = "L8"
    /\ image0 = <<192>>
    /\ image = <<223>>

-----------------------------------------------------------------------------
(* Properties of main, checked under Spec *)

PipelineStages == {"header", "color_type", "read", "mask", "encode", "optimize"}

\* C3: a successful run with an output path that existed, under --force,
\* leaves exactly the optimized bytes in the output file.
C3_OutputIsExactlyOptimized ==
    (/\ pc = "exit" /\ status = 0
     /\ args.output # None /\ args.force
     /\ fs0[args.output] # NoFile) =>
        fs[args.output] = optimized

\* C4: a run that ends with the unsupported colour type error carries the
\* rejected format and the input path, and an output path that did not exist
\* before the run does not exist after it.
C4_NoOutputFileCreated ==
    err.kind = "ColorType" =>
        /\ err.format \in OtherColorTypes
        /\ err.path = args.input
        /\ (args.output # None /\ fs0[args.output] = NoFile) =>
              fs[args.output] = NoFile

\* C5: a successful in-place run leaves exactly the optimized bytes in the
\* input file, whose length is the output length.
C5_InplaceExact ==
    (pc = "exit" /\ status = 0 /\ args.output = None) =>
        /\ output.tag = "Inplace"
        /\ fs[args.input] = optimized
        /\ Len(fs[args.input]) = Len(optimized)
        /\ fs["out"] = fs0["out"]

C5_Witness ==
    /\ pc = "exit" /\ status = 0 /\ args.output = None
    /\ Len(fs0[args.input]) = 2
    /\ Len(optimized) = 1
    /\ Len(fs[args.input]) = 1

\* C6: the output target differs from what it was after the open step only
\* once header decode, colour-type resolution, pixel decode, mask, encode and
\* optimize have all succeeded; before the open step no file has changed; and
\* when one of those stages failed the output target is as after the open step.
C6_NoPartialOutput ==
    /\ output.tag = "None" => fs = fs0
    /\ output.tag # "None" =>
         /\ (fs[output.path] # fsOpen[output.path] => PipelineStages \subseteq steps)
         /\ (err.kind \in {"Header", "ColorType", "Read", "Encode", "Optimize"} =>
                fs[output.path] = fsOpen[output.path])

C6_Witness ==
    /\ err.kind = "Optimize"
    /\ output.tag = "NewFile"
    /\ fs0[output.path] = NoFile
    /\ fs[output.path] = <<>>
    /\ steps = PipelineStages \ {"optimize"}

\* C7: without an output path and without --force the run ends with the usage
\* hint and status 1, no file was opened, created or changed, and no stage of
\* the pipeline ran.
C7_UsageErrorTouchesNothing ==
    (args.output = None /\ ~args.force) =>
        /\ pc \in {"start", "exit"}
        /\ opened = {}
        /\ fs = fs0
        /\ steps = {}
        /\ output.tag = "None"
        /\ pc = "exit" => (status = 1 /\ err.kind = "Usage")

C7_Witness ==
    /\ pc = "exit"
    /\ err.kind = "Usage"
    /\ status = 1
    /\ fs0["in"] # NoFile

====
